---------------------------- MODULE Spec2Model ----------------------------
(***************************************************************************)
(* A model of the Kiln extension for Mercurial (src/.hgextensions/kiln.py).*)
(*                                                                         *)
(* Python strings are modelled as sequences of one-character strings, so   *)
(* that find, split, startswith, lower and slicing are computed the way    *)
(* the code computes them.  The empty string and None are both falsy in    *)
(* every test the code makes on a token, and both are the empty sequence.  *)
(***************************************************************************)
EXTENDS Integers, Sequences, FiniteSets, TLC

(***************************************************************************)
(* Python string primitives                                                *)
(***************************************************************************)
UpperChars == <<"A","B","C","D","E","F","G","H","I","J","K","L","M",
                "N","O","P","Q","R","S","T","U","V","W","X","Y","Z">>

LowerChars == <<"a","b","c","d","e","f","g","h","i","j","k","l","m",
                "n","o","p","q","r","s","t","u","v","w","x","y","z">>

\* c.lower() for one character
LowerChar(c) ==
    IF \E i \in 1..Len(UpperChars) : UpperChars[i] = c
    THEN LowerChars[CHOOSE i \in 1..Len(UpperChars) : UpperChars[i] = c]
    ELSE c

\* s.lower()
Lower(s) == [i \in 1..Len(s) |-> LowerChar(s[i])]

\* s.replace(a, b) for one-character a and b
ReplaceChar(s, a, b) == [i \in 1..Len(s) |-> IF s[i] = a THEN b ELSE s[i]]

\* whether sub occurs in s at 0-based offset k
OccursAt(s, sub, k) ==
    /\ k >= 0
    /\ k + Len(sub) <= Len(s)
    /\ \A j \in 1..Len(sub) : s[k + j] = sub[j]

\* s.find(sub): the lowest 0-based offset, or -1
Find(s, sub) ==
    IF \E k \in 0..Len(s) : OccursAt(s, sub, k)
    THEN CHOOSE k \in 0..Len(s) :
            /\ OccursAt(s, sub, k)
            /\ \A m \in 0..(k - 1) : ~OccursAt(s, sub, m)
    ELSE -1

\* sub in s
Contains(s, sub) == Find(s, sub) # -1

\* a slice bound as Python clamps it: a negative bound counts from the end
Clamp(s, k) ==
    IF k < 0
    THEN (IF Len(s) + k < 0 THEN 0 ELSE Len(s) + k)
    ELSE (IF k > Len(s) THEN Len(s) ELSE k)

\* s[:k]
SliceTo(s, k) == SubSeq(s, 1, Clamp(s, k))

\* s[k:]
SliceFrom(s, k) == SubSeq(s, Clamp(s, k) + 1, Len(s))

\* s.startswith(p)
StartsWith(s, p) == OccursAt(s, p, 0)

\* s.endswith(p)
EndsWith(s, p) == OccursAt(s, p, Len(s) - Len(p))

\* s.count(c) for a one-character c
Count(s, c) == Cardinality({i \in 1..Len(s) : s[i] = c})

\* s.split(c) for a one-character c: always at least one part
RECURSIVE Split(_, _)
Split(s, c) ==
    LET k == Find(s, <<c>>)
    IN  IF k = -1
        THEN <<s>>
        ELSE <<SliceTo(s, k)>> \o Split(SliceFrom(s, k + 1), c)

\* sep.join(parts)
RECURSIVE Join(_, _)
Join(parts, sep) ==
    IF Len(parts) = 0 THEN <<>>
    ELSE IF Len(parts) = 1 THEN parts[1]
    ELSE parts[1] \o sep \o Join(Tail(parts), sep)

\* the concatenation of a sequence of strings
RECURSIVE Concat(_)
Concat(parts) ==
    IF Len(parts) = 0 THEN <<>> ELSE parts[1] \o Concat(Tail(parts))

\* [f(x) for x in xs] for a sequence of strings and the operator f
Map(f(_), xs) == [i \in 1..Len(xs) |-> f(xs[i])]

EmptyStr == <<>>

Slash == <<"/">>


(***************************************************************************)
(* Pure helpers of kiln.py                                                 *)
(***************************************************************************)

\* the names the reserved pattern matches with an optional ".<anything>" tail
DeviceNames == { <<"c","o","n">>, <<"p","r","n">>, <<"a","u","x">> }

\* the prefixes the reserved pattern follows with one digit 1-9
DevicePrefixes == { <<"c","o","m">>, <<"l","p","t">> }

Digits19 == {"1","2","3","4","5","6","7","8","9"}

\* the names the reserved pattern matches only as a whole component
FixedReserved ==
    { <<"w","e","b",".","c","o","n","f","i","g">>,
      <<"c","l","o","c","k","$">>,
      <<"a","p","p","_","d","a","t","a">>,
      <<"a","p","p","_","c","o","d","e">>,
      <<"a","p","p","_","b","r","o","w","s","e","r","s">>,
      <<"a","p","p","_","g","l","o","b","a","l","r","e","s","o","u","r","c","e","s">>,
      <<"a","p","p","_","l","o","c","a","l","r","e","s","o","u","r","c","e","s">>,
      <<"a","p","p","_","t","h","e","m","e","s">>,
      <<"a","p","p","_","w","e","b","r","e","f","e","r","e","n","c","e","s">>,
      <<"b","i","n">> }

\* (com[1-9]|lpt[1-9]|con|prn|aux) on a lower-cased string
IsDevice(p) ==
    \/ p \in DeviceNames
    \/ /\ Len(p) = Len(<<"c","o","m">>) + 1
       /\ SliceTo(p, Len(p) - 1) \in DevicePrefixes
       /\ p[Len(p)] \in Digits19

\* reserved.match(part): the whole pattern, anchored, ignoring case
ReservedMatch(part) ==
    LET p == Lower(part)
    IN  \/ \E k \in 0..Len(p) :
              /\ IsDevice(SliceTo(p, k))
              /\ (k = Len(p) \/ p[k + 1] = ".")
        \/ p \in FixedReserved

\* a faulty variant of EscapePart: a component that already starts with '$' is left alone
EscapePartSkipSentinel(part) ==
    IF ReservedMatch(part) /\ ~StartsWith(part, <<"$">>)
    THEN <<"$">> \o part
    ELSE part

\* '$' + part if reserved.match(part) or part.startswith('$') else part
EscapePart(part) ==
    IF ReservedMatch(part) \/ StartsWith(part, <<"$">>)
    THEN <<"$">> \o part
    ELSE part

\* escape_reserved(path)
escape_reserved(path) ==
    LET p     == Split(path, "?")
        query == IF Len(p) > 1 THEN <<"?">> \o p[2] ELSE EmptyStr
    IN  Join(Map(EscapePart, Split(p[1], "/")), Slash) \o query

\* urljoin(a, b): one step of the loop of urljoin
UrlJoin2(url, next) ==
    (IF EndsWith(url, Slash) THEN url ELSE url \o Slash)
        \o (IF StartsWith(next, Slash) THEN SliceFrom(next, 1) ELSE next)

\* urljoin(*components)
RECURSIVE urljoin(_)
urljoin(components) ==
    IF Len(components) = 1 THEN components[1]
    ELSE urljoin(<<UrlJoin2(components[1], components[2])>>
                    \o SubSeq(components, 3, Len(components)))

\* normalize_name(s)
normalize_name(s) == ReplaceChar(Lower(s), " ", "-")

\* get_domain(url)
get_domain(url) ==
    LET sep    == <<":","/","/">>
        temp   == SliceFrom(url, Find(url, sep) + Len(sep))
        host   == SliceTo(temp, Find(temp, Slash))
        domain == IF Contains(host, <<":">>) THEN Split(host, ":")[1] ELSE host
    IN  IF Contains(domain, <<".">>)
        THEN domain
        ELSE domain \o <<".","l","o","c","a","l">>

\* create_match_list(matchlist)
create_match_list(matchlist) ==
    Concat([i \in 1..Len(matchlist) |->
                <<" "," "," "," ">> \o matchlist[i] \o <<"\n">>])

\* hg.schemes: the URL schemes Mercurial has a repository class for
HgSchemes ==
    { <<"b","u","n","d","l","e">>, <<"f","i","l","e">>, <<"h","t","t","p">>,
      <<"h","t","t","p","s">>, <<"s","s","h">>,
      <<"s","t","a","t","i","c","-","h","t","t","p">> }

\* is_dest_a_scheme(ui, dest): dest.find is -1 when dest holds no '://', and
\* dest[:-1] is then dest without its last character
is_dest_a_scheme(d) ==
    LET destscheme == SliceTo(d, Find(d, <<":","/","/">>))
    IN  destscheme # EmptyStr /\ destscheme \in HgSchemes

\* is_dest_a_path(ui, dest), over the names of the [paths] items
is_dest_a_path(pathnames, d) == d \in pathnames

\* re.search(r'[:=\s]', path)
WhitespaceChars == {" ", "\t", "\n", "\r", "\f"}

HasConfigChar(path) ==
    \E i \in 1..Len(path) : path[i] \in ({":", "="} \cup WhitespaceChars)


(***************************************************************************)
(* The repository, the token file and the cookie store                     *)
(***************************************************************************)

\* mercurial.node.nullrev
nullrev == -1

\* a file that does not exist, and a file holding text (for the token file
\* its lines, for the cookie jar its cookies)
Absent == [exists |-> FALSE, text |-> <<>>]

File(text) == [exists |-> TRUE, text |-> text]

DigitChars == <<"0","1","2","3","4","5","6","7","8","9">>

\* ctx.hex() of revision rev: an identifier of its own for every revision
Hex(rev) == <<"n", DigitChars[rev + 1]>>

\* md5(get_username(get_dest(ui))).hexdigest(): fixed during one invocation
UserHash == <<"u","1">>

\* the marker a relevant kiln_scheme URL holds, tried in this order
KilnMarker == <<"/","k","i","l","n","/">>

KilnHgMarker == <<"k","i","l","n","h","g",".","c","o","m","/">>

\* whether the loop of get_targets goes on with the entry (no 'continue')
IsRelevant(url) ==
    \/ Find(Lower(url), KilnMarker) # -1
    \/ Find(Lower(url), KilnHgMarker) # -1

\* baseurl of a relevant entry
BaseUrl(url) ==
    IF Find(Lower(url), KilnMarker) # -1
    THEN SliceTo(url, Find(Lower(url), KilnMarker) + Len(KilnMarker))
    ELSE SliceTo(url, Find(Lower(url), KilnHgMarker) + Len(KilnHgMarker))

\* the revisions get_tails keeps: both parents are nullrev
IsTail(ctx) == ctx.p1 = nullrev /\ ctx.p2 = nullrev

\* a faulty variant of TailRevs: only revision 0 is looked at
TailRevsFirstOnly(repo) ==
    SelectSeq([i \in 1..Len(repo) |-> i - 1], LAMBDA rev : rev = 0 /\ IsTail(repo[rev + 1]))

\* the revisions of 0..tip that get_tails collects, in order
TailRevs(repo) ==
    SelectSeq([i \in 1..Len(repo) |-> i - 1], LAMBDA rev : IsTail(repo[rev + 1]))

\* get_tails(repo), before its test for an empty list
get_tails(repo) == Map(Hex, TailRevs(repo))

\* one line of the token file is malformed: line.split(' ') has not 3 fields
Malformed(file) ==
    /\ file.exists
    /\ \E i \in 1..Len(file.text) :
          Len(Split(file.text[i], " ")) # Len(<<"d", "u", "t">>)

\* whether line i of the token file is for (domain, userhash)
LineMatches(line, domain) ==
    LET f == Split(line, " ")
    IN  f[1] = domain /\ f[2] = UserHash

\* check_kilnapi_token(ui, url) on a well-formed file: the last matching line
\* wins and its token loses its last character, the newline
check_kilnapi_token(file, url) ==
    IF ~file.exists THEN EmptyStr
    ELSE LET hits == {i \in 1..Len(file.text) :
                        LineMatches(file.text[i], get_domain(url))}
         IN  IF hits = {} THEN EmptyStr
             ELSE LET last == CHOOSE i \in hits : \A j \in hits : j <= i
                  IN  SliceTo(Split(file.text[last], " ")[3], -1)

FbToken == <<"f","b","T","o","k","e","n">>

\* check_kilnauth_token(ui, url): the first fbToken cookie of the domain
check_kilnauth_token(jar, url) ==
    IF ~jar.exists THEN EmptyStr
    ELSE LET hits == {i \in 1..Len(jar.text) :
                        /\ jar.text[i].domain = get_domain(url)
                        /\ jar.text[i].name = FbToken}
         IN  IF hits = {} THEN EmptyStr
             ELSE jar.text[CHOOSE i \in hits : \A j \in hits : i <= j].value

\* the line add_kilnapi_token writes
TokenLine(url, fbToken) ==
    get_domain(url) \o <<" ">> \o UserHash \o <<" ">> \o fbToken \o <<"\n">>

\* a faulty variant of add_kilnapi_token: an empty token is written too
add_kilnapi_token_always(file, url, fbToken) ==
    File(file.text \o <<TokenLine(url, fbToken)>>)

\* add_kilnapi_token(ui, url, fbToken): the token file afterwards
add_kilnapi_token(file, url, fbToken) ==
    IF fbToken = EmptyStr THEN file
    ELSE File(file.text \o <<TokenLine(url, fbToken)>>)

\* an entry of the call log
Ev(op, url, val) == [op |-> op, url |-> url, val |-> val, tails |-> <<>>]

\* the entry of the call log for call_api(apiurl, dict(revTails=tails, token=token))
EvApi(apiurl, token, tails) ==
    [op |-> "call_api", url |-> apiurl, val |-> token, tails |-> tails]

\* a reply of the remote API: ok is FALSE when call_api raises
Reply(ok, body) == [ok |-> ok, body |-> body]


(***************************************************************************)
(* Token acquisition and matching                                          *)
(***************************************************************************)

\* lines 443-448 once check_kilnapi_token gave t1 and, if it is consulted,
\* check_kilnauth_token gives t2: the outcome, the token, the token file
\* afterwards and the calls made; add_kilnapi_token is called with the
\* cookie token even when it is empty (line 445), and login raises before
\* line 448 when it has no token
TokenChain(file, baseurl, loginReply, t1, t2) ==
    IF t1 # EmptyStr
    THEN [outcome |-> "ok", token |-> t1, file |-> file,
          events |-> <<Ev("check_kilnapi_token", baseurl, t1)>>]
    ELSE IF t2 # EmptyStr
    THEN [outcome |-> "ok", token |-> t2,
          file |-> add_kilnapi_token(file, baseurl, t2),
          events |-> <<Ev("check_kilnapi_token", baseurl, t1),
                       Ev("check_kilnauth_token", baseurl, t2),
                       Ev("write_token", baseurl, t2)>>]
    ELSE IF ~loginReply.ok
    THEN [outcome |-> "abort_api", token |-> EmptyStr,
          file |-> add_kilnapi_token(file, baseurl, t2),
          events |-> <<Ev("check_kilnapi_token", baseurl, t1),
                       Ev("check_kilnauth_token", baseurl, t2),
                       Ev("login", baseurl, EmptyStr)>>]
    ELSE IF loginReply.body = EmptyStr
    THEN [outcome |-> "abort_auth", token |-> EmptyStr,
          file |-> add_kilnapi_token(file, baseurl, t2),
          events |-> <<Ev("check_kilnapi_token", baseurl, t1),
                       Ev("check_kilnauth_token", baseurl, t2),
                       Ev("login", baseurl, EmptyStr)>>]
    ELSE [outcome |-> "ok", token |-> loginReply.body,
          file |-> add_kilnapi_token(add_kilnapi_token(file, baseurl, t2),
                                     baseurl, loginReply.body),
          events |-> <<Ev("check_kilnapi_token", baseurl, t1),
                       Ev("check_kilnauth_token", baseurl, t2),
                       Ev("login", baseurl, loginReply.body),
                       Ev("write_token", baseurl, loginReply.body)>>]

\* the token of one relevant scheme entry (get_targets, lines 442-448);
\* check_kilnapi_token raises on a malformed token file
AcquireToken(file, jar, baseurl, loginReply) ==
    IF Malformed(file)
    THEN [outcome |-> "abort_malformed", token |-> EmptyStr, file |-> file,
          events |-> <<>>]
    ELSE TokenChain(file, baseurl, loginReply,
                    check_kilnapi_token(file, baseurl),
                    check_kilnauth_token(jar, baseurl))

\* a faulty variant of MakeTarget: the target carries the truncated base URL
MakeTargetBaseUrl(url, related_repo) ==
    << BaseUrl(url), related_repo.sProjectSlug, related_repo.sGroupSlug,
       related_repo.sSlug,
       IF "rgAliases" \in DOMAIN related_repo THEN related_repo.rgAliases ELSE <<>> >>

\* one element of the list get_targets extends targets with: target[0..4] of
\* the code are elements 1..5 here
MakeTarget(url, related_repo) ==
    << url, related_repo.sProjectSlug, related_repo.sGroupSlug,
       related_repo.sSlug,
       IF "rgAliases" \in DOMAIN related_repo THEN related_repo.rgAliases ELSE <<>> >>

\* '%s/%s/%s/%s' % (target[0], target[1], target[2], target[3])
TargetUrl(target) ==
    target[1] \o Slash \o target[2] \o Slash \o target[3] \o Slash \o target[4]

\* [normalize_name(t) for t in target[1:4]]
NTarget(target) == Map(normalize_name, SubSeq(target, 2, 4))

\* a faulty variant of ExactMatch: the alias list is not looked at
ExactMatchNoAlias(target, d) ==
    LET ndest   == normalize_name(d)
        ntarget == NTarget(target)
    IN  \/ Count(ndest, "/") = 0 /\ \E i \in 1..3 : ntarget[i] = ndest
        \/ Count(ndest, "/") = 1 /\ Join(SubSeq(ntarget, 1, 2), Slash) = ndest
        \/ Join(SubSeq(ntarget, 2, 3), Slash) = ndest
        \/ Count(ndest, "/") = 2 /\ Join(ntarget, Slash) = ndest

\* whether the if/elif chain of lines 378-390 appends the target's url; as
\* Python parses it, the second test is (count == 1 and p/g == ndest) or
\* g/r == ndest
ExactMatch(target, d) ==
    LET ndest   == normalize_name(d)
        ntarget == NTarget(target)
        aliases == Map(normalize_name, target[5])
    IN  IF /\ Count(ndest, "/") = 0
           /\ \/ ntarget[1] = ndest
              \/ ntarget[2] = ndest
              \/ ntarget[3] = ndest
              \/ \E i \in 1..Len(aliases) : aliases[i] = ndest
        THEN TRUE
        ELSE IF \/ /\ Count(ndest, "/") = 1
                   /\ Join(SubSeq(ntarget, 1, 2), Slash) = ndest
                \/ Join(SubSeq(ntarget, 2, 3), Slash) = ndest
        THEN TRUE
        ELSE Count(ndest, "/") = 2 /\ Join(SubSeq(ntarget, 1, 3), Slash) = ndest

\* a faulty variant of PrefixMatch: the destination is tested for starting
\* with a slug
PrefixMatchReversed(target, d) ==
    LET ndest   == normalize_name(d)
        ntarget == NTarget(target)
    IN  \E i \in 1..3 : StartsWith(ndest, ntarget[i])

\* the test of lines 392-397
PrefixMatch(target, d) ==
    LET ndest   == normalize_name(d)
        ntarget == NTarget(target)
    IN  \/ StartsWith(ntarget[1], ndest)
        \/ StartsWith(ntarget[2], ndest)
        \/ StartsWith(ntarget[3], ndest)
        \/ StartsWith(Join(SubSeq(ntarget, 1, 2), Slash), ndest)
        \/ StartsWith(Join(SubSeq(ntarget, 2, 3), Slash), ndest)
        \/ StartsWith(Join(SubSeq(ntarget, 1, 3), Slash), ndest)

\* matches after the loop over targets
Matches(tgts, d) ==
    Map(TargetUrl, SelectSeq(tgts, LAMBDA target : ExactMatch(target, d)))

\* prefixmatches after the loop over targets
PrefixMatches(tgts, d) ==
    Map(TargetUrl, SelectSeq(tgts, LAMBDA target : PrefixMatch(target, d)))


(***************************************************************************)
(* The inputs the model draws from                                         *)
(***************************************************************************)

\* the longest list the Related endpoint answers with
MaxRelated == 2

\* the most revisions a repository holds
MaxCommits == 2

\* the most components of a file path given to hg kiln --file
MaxParts == 2

\* kiln_scheme URLs: 'http://h/Kiln/Repo', 'https://a.kilnhg.com/Repo' and
\* 'http://x.org/hg' (no marker)
UrlKiln == <<"h","t","t","p",":","/","/","h","/","K","i","l","n","/","R","e","p","o">>

UrlKilnHg ==
    <<"h","t","t","p","s",":","/","/","a",".","k","i","l","n","h","g",".","c","o","m","/","R","e","p","o">>

UrlOther == <<"h","t","t","p",":","/","/","x",".","o","r","g","/","h","g">>

\* related repositories as the API describes them: acme/web/api with the
\* alias backend, Beta/ops/api without rgAliases, acme/web/My Repo with the
\* alias a:b.  A slug never holds a '/': it is one segment of a URL path.
RepoApi ==
    [sProjectSlug |-> <<"a","c","m","e">>, sGroupSlug |-> <<"w","e","b">>,
     sSlug |-> <<"a","p","i">>, rgAliases |-> << <<"b","a","c","k","e","n","d">> >>]

RepoBeta ==
    [sProjectSlug |-> <<"B","e","t","a">>, sGroupSlug |-> <<"o","p","s">>,
     sSlug |-> <<"a","p","i">>]

RepoMy ==
    [sProjectSlug |-> <<"a","c","m","e">>, sGroupSlug |-> <<"w","e","b">>,
     sSlug |-> <<"M","y"," ","R","e","p","o">>, rgAliases |-> << <<"a",":","b">> >>]

\* the lists without repetition of at most MaxRelated repositories of pool
RelatedLists(pool) ==
    UNION { { q \in [1..n -> pool] : \A i, j \in 1..n : q[i] = q[j] => i = j }
            : n \in 0..MaxRelated }

\* what call_api gives for Repo/Related: a list, or it raises
RelatedReplies(pool) ==
    { Reply(TRUE, q) : q \in RelatedLists(pool) } \cup { Reply(FALSE, <<>>) }

\* what call_api gives for Auth/Login: a token, an empty token, or it raises
LoginReplies ==
    { Reply(TRUE, <<"t","9">>), Reply(TRUE, EmptyStr), Reply(FALSE, EmptyStr) }

\* the destinations typed: '', api, backend, acme/web/api, web/api, Acme/Web,
\* ac, 'my repo', a:b, Nope, acme/web/api/x, https, http://h, default
Dests ==
    { EmptyStr,
      <<"a","p","i">>,
      <<"b","a","c","k","e","n","d">>,
      <<"a","c","m","e","/","w","e","b","/","a","p","i">>,
      <<"w","e","b","/","a","p","i">>,
      <<"A","c","m","e","/","W","e","b">>,
      <<"a","c">>,
      <<"m","y"," ","r","e","p","o">>,
      <<"a",":","b">>,
      <<"N","o","p","e">>,
      <<"a","c","m","e","/","w","e","b","/","a","p","i","/","x">>,
      <<"h","t","t","p","s">>,
      <<"h","t","t","p",":","/","/","h">>,
      <<"d","e","f","a","u","l","t">> }

\* the names of the [paths] items of the ui
PathNames == { <<"d","e","f","a","u","l","t">> }

\* contents of .hg/hgrc and of a left-over .hg/hgrc.backup
HgrcText == <<"[","u","i","]","\n">>

StaleText == <<"[","o","l","d","]","\n">>

\* repositories of at most MaxCommits revisions: the parents of revision r
\* are nullrev or revisions below r
Repos ==
    UNION { { c \in [1..n -> [p1 : nullrev..(n - 2), p2 : nullrev..(n - 2)]] :
                \A i \in 1..n : c[i].p1 < i - 1 /\ c[i].p2 < i - 1 }
            : n \in 0..MaxCommits }

\* token files: none, a token of this user for h.local, a token of another
\* user, two lines of this user, a line with one field
TokenMine == <<"h",".","l","o","c","a","l"," ","u","1"," ","t","1","\n">>

TokenOlder == <<"h",".","l","o","c","a","l"," ","u","1"," ","t","0","\n">>

TokenTheirs == <<"h",".","l","o","c","a","l"," ","u","2"," ","t","7","\n">>

TokenJunk == <<"j","u","n","k","\n">>

TokenFiles ==
    { Absent, File(<<TokenMine>>), File(<<TokenTheirs>>),
      File(<<TokenOlder, TokenMine>>), File(<<TokenJunk>>) }

\* cookie jars of this user: none, an fbToken cookie for h.local, another
\* cookie for h.local followed by an fbToken cookie for a.kilnhg.com
CookieH ==
    [domain |-> <<"h",".","l","o","c","a","l">>, name |-> FbToken,
     value |-> <<"c","1">>]

CookieSid ==
    [domain |-> <<"h",".","l","o","c","a","l">>, name |-> <<"s","i","d">>,
     value |-> <<"z","z">>]

CookieA ==
    [domain |-> <<"a",".","k","i","l","n","h","g",".","c","o","m">>,
     name |-> FbToken, value |-> <<"c","2">>]

CookieJars == { Absent, File(<<CookieH>>), File(<<CookieSid, CookieA>>) }

\* components of the file paths given to hg kiln --file
FileParts ==
    { <<"c","o","n">>, <<"C","O","N">>, <<"C","o","m","1",".","t","x","t">>,
      <<"l","p","t","0">>, <<"b","i","n">>, <<"b","i","n","x">>,
      <<"w","e","b",".","c","o","n","f","i","g">>, <<"$","c","o","n">>,
      <<"$","x">>, <<"x">> }

\* file paths of 1..MaxParts components
FilePaths ==
    UNION { { Join(q, Slash) : q \in [1..n -> FileParts] } : n \in 1..MaxParts }

\* the page kinds of hg kiln that take a file, with the query each appends
PageKinds == { "file", "annotate", "filehistory" }

PageQuery(kind) ==
    CASE kind = "annotate"    -> <<"?","v","i","e","w","=","a","n","n","o","t","a","t","e">>
      [] kind = "filehistory" -> <<"?","r","e","v","=","t","i","p">>
      [] OTHER                -> EmptyStr

PageSegment(kind) ==
    IF kind = "filehistory"
    THEN <<"F","i","l","e","H","i","s","t","o","r","y">>
    ELSE <<"F","i","l","e">>

\* the URL _baseurl gives for the repository browsed
BrowseBase == <<"h","t","t","p",":","/","/","h","/","k","i","l","n","/","R">>


(***************************************************************************)
(* The version notifier                                                    *)
(***************************************************************************)
KILN_CAPABILITY_PREFIX == <<"k","i","l","n","-">>

KILN_CURRENT_VERSION == <<"2",".","3",".","2","9">>

\* the characters of the class [0-9.]
VersionChars == { DigitChars[i] : i \in 1..Len(DigitChars) } \cup {"."}

\* the longest run of [0-9.] at the start of s: what the greedy group takes
VersionRun(s) ==
    SubSeq(s, 1,
           CHOOSE k \in 0..Len(s) :
              /\ \A i \in 1..k : s[i] \in VersionChars
              /\ k = Len(s) \/ s[k + 1] \notin VersionChars)

\* whether re.match(KILN_CAPABILITY_PREFIX + '(?P<version>[0-9.]+).*', str)
\* gives a match
VersionMatches(str) ==
    /\ StartsWith(str, KILN_CAPABILITY_PREFIX)
    /\ VersionRun(SliceFrom(str, Len(KILN_CAPABILITY_PREFIX))) # EmptyStr

\* m.group('version')
VersionGroup(str) == VersionRun(SliceFrom(str, Len(KILN_CAPABILITY_PREFIX)))

\* whether int(s) returns for a string of digits and letters: it raises
\* ValueError on the empty string and on a string holding a non-digit
IsInt(s) ==
    /\ Len(s) > 0
    /\ \A i \in 1..Len(s) : \E d \in 1..Len(DigitChars) : DigitChars[d] = s[i]

\* int(s) for a string of digits
RECURSIVE ParseInt(_)
ParseInt(s) ==
    IF Len(s) = 0 THEN 0
    ELSE 10 * ParseInt(SubSeq(s, 1, Len(s) - 1))
            + (CHOOSE d \in 1..Len(DigitChars) : DigitChars[d] = s[Len(s)]) - 1

\* whether [int(s) for s in v.split('.')] returns
Parseable(v) == \A i \in 1..Len(Split(v, ".")) : IsInt(Split(v, ".")[i])

\* [int(s) for s in v.split('.')]
VersionList(v) == Map(ParseInt, Split(v, "."))

\* a > b for two lists of integers: the first differing component decides,
\* and a list that the other is a proper prefix of is the greater
ListGreater(a, b) ==
    \/ \E k \in 1..Len(a) :
          /\ k <= Len(b)
          /\ a[k] > b[k]
          /\ \A j \in 1..(k - 1) : a[j] = b[j]
    \/ /\ Len(a) > Len(b)
       /\ \A j \in 1..Len(b) : a[j] = b[j]

\* what one call of _versioncheck leaves: the guard flag, whether it raised,
\* whether it reached the comparison of line 187, what it printed, and what
\* it handed to the browser
VersionResult(flag, raised, compared, out, pages) ==
    [flag |-> flag, raised |-> raised, compared |-> compared,
     out |-> out, pages |-> pages]

\* lines 188-204: the advertised version is above the client's
Announce(version, ignoreversion, repourl, answer) ==
    IF Find(Lower(repourl), <<"/","r","e","p","o">>) = -1
    THEN VersionResult(TRUE, TRUE, TRUE, <<>>, <<>>)
    ELSE IF ListGreater(VersionList(version), VersionList(ignoreversion))
    THEN IF answer
         THEN VersionResult(TRUE, FALSE, TRUE, <<"prompt", "newline">>,
                <<escape_reserved(urljoin(
                    <<SliceTo(repourl,
                              Find(Lower(repourl), <<"/","r","e","p","o">>)),
                      <<"T","o","o","l","s">>>>))>>)
         ELSE VersionResult(TRUE, FALSE, TRUE,
                            <<"prompt", "hint", "newline">>, <<>>)
    ELSE VersionResult(TRUE, FALSE, TRUE, <<"notice", "newline">>, <<>>)

\* _versioncheck(ui, repo, str) with the guard flag at flag,
\* ui.config('kiln', 'ignoreversion', '0.0.0') = ignoreversion,
\* repo.url() = repourl and the user's answer to the prompt
_versioncheck(flag, str, ignoreversion, repourl, answer) ==
    IF flag \/ ~VersionMatches(str)
    THEN VersionResult(flag, FALSE, FALSE, <<>>, <<>>)
    ELSE IF ~Parseable(VersionGroup(str)) \/ ~Parseable(ignoreversion)
    THEN VersionResult(TRUE, TRUE, FALSE, <<>>, <<>>)
    ELSE IF ListGreater(VersionList(VersionGroup(str)),
                        VersionList(KILN_CURRENT_VERSION))
    THEN Announce(VersionGroup(str), ignoreversion, repourl, answer)
    ELSE VersionResult(TRUE, FALSE, TRUE, <<>>, <<>>)

\* capability strings a server advertises
CapNewer == <<"k","i","l","n","-","2",".","4",".","0">>

CapSame == <<"k","i","l","n","-","2",".","3",".","2","9">>

CapDoubleDot == <<"k","i","l","n","-","2",".",".","5">>

CapBeta == <<"k","i","l","n","-","b","e","t","a">>

CapLookup == <<"l","o","o","k","u","p">>

\* the values of ignoreversion in the [kiln] section: the default, the
\* advertised version, and one that is no version
DefaultIgnore == <<"0",".","0",".","0">>

IgnoreVersions == { DefaultIgnore, <<"2",".","4",".","0">>, <<"o","f","f">> }

RepoUrlKiln ==
    <<"h","t","t","p",":","/","/","h","/","K","i","l","n","/","R","e","p","o",
      "/","a","/","b","/","c">>

\* a repository object: whether its class derives from httprepository, its
\* url() and its capabilities in the order the loop of reposetup meets them
RepoObject(http, url, caps) == [http |-> http, url |-> url, caps |-> caps]

\* no reposetup is running
NoRepo == RepoObject(FALSE, EmptyStr, <<>>)

RepoObjects ==
    { RepoObject(TRUE, RepoUrlKiln, <<CapLookup, CapNewer>>),
      RepoObject(TRUE, RepoUrlKiln, <<CapSame, CapNewer>>),
      RepoObject(TRUE, RepoUrlKiln, <<CapDoubleDot, CapNewer>>),
      RepoObject(TRUE, RepoUrlKiln, <<CapBeta, CapNewer>>),
      RepoObject(TRUE, UrlOther, <<CapNewer>>),
      RepoObject(TRUE, RepoUrlKiln, <<>>),
      RepoObject(FALSE, RepoUrlKiln, <<CapNewer>>) }

\* the number of repository objects one process sets up
MaxSetups == 2


(***************************************************************************)
(* State                                                                   *)
(***************************************************************************)
VARIABLES
    cmd,            \* the command run: "push" (a wrapped command), "targets", "browse"
    pc,             \* where the command stands
    dest,           \* the dest argument of guess_kilnpath
    destExists,     \* what os.path.exists(dest) answered
    pathnames,      \* the names of ui.configitems('paths')
    hgrc,           \* .hg/hgrc: Absent or File(its text)
    backup,         \* .hg/hgrc.backup: Absent or File(its text)
    hgrc0,          \* hgrc when the command started
    backup0,        \* hgrc.backup when the command started
    kilnschemes,    \* the URLs of ui.configitems('kiln_scheme'), in order
    idx,            \* the entry of kilnschemes the loop of get_targets is at
    commits,        \* the repository: revision r is commits[r + 1]
    tokenFile,      \* ~/.hgkiln: Absent or File(its lines)
    tokenFile0,     \* the token file when the command started
    cookies,        \* the cookie jar of the user: Absent or File(its cookies)
    apiPool,        \* the repositories the server can name as related
    targets,        \* targets of get_targets
    matches,        \* matches of guess_kilnpath
    prefixmatches,  \* prefixmatches of guess_kilnpath
    origCalls,      \* the dest arguments the wrapped command was called with
    outcome,        \* how the command ended
    message,        \* the text of the util.Abort raised by guess_kilnpath
    trace,          \* the calls made, in order
    bfile,          \* the file path given to hg kiln
    bkind,          \* the page kind given to hg kiln
    opened,         \* the URLs handed to the browser
    _did_version_check, \* the guard flag of the process
    ignoreversion,  \* ui.config('kiln', 'ignoreversion', '0.0.0')
    vrepo,          \* the repository object reposetup is working on
    vpos,           \* the capability the loop of reposetup is at
    nsetups,        \* the reposetup calls of the process so far
    vlog            \* the _versioncheck calls of the process, in order

vars ==
    << cmd, pc, dest, destExists, pathnames, hgrc, backup, hgrc0, backup0,
       kilnschemes, idx, commits, tokenFile, tokenFile0, cookies, apiPool,
       targets, matches, prefixmatches, origCalls, outcome, message, trace,
       bfile, bkind, opened, _did_version_check, ignoreversion, vrepo, vpos,
       nsetups, vlog >>

\* the variables of the files under .hg
fileVars == << hgrc, backup, hgrc0, backup0, pathnames >>

\* the inputs no step changes
inputVars == << cmd, dest, kilnschemes, commits, tokenFile0, cookies, apiPool,
                hgrc0, backup0, bfile, bkind, ignoreversion >>

\* the variables of reposetup and _versioncheck
versionVars == << _did_version_check, vrepo, vpos, nsetups, vlog >>

\* the argument list of orig(ui, repo, **opts)
NoDest == <<"(none)">>

\* what every command starts with
InitCommon ==
    /\ pc = "start"
    /\ destExists = FALSE
    /\ hgrc0 = hgrc
    /\ backup0 = backup
    /\ idx = 1
    /\ tokenFile0 = tokenFile
    /\ targets = <<>>
    /\ matches = <<>>
    /\ prefixmatches = <<>>
    /\ origCalls = <<>>
    /\ outcome = "running"
    /\ message = EmptyStr
    /\ trace = <<>>
    /\ opened = <<>>
    /\ _did_version_check = FALSE
    /\ vrepo = NoRepo
    /\ vpos = 0
    /\ nsetups = 0
    /\ vlog = <<>>

\* hg push/pull/incoming/outgoing with a destination, through guess_kilnpath
InitPush ==
    /\ cmd = "push"
    /\ dest \in Dests
    /\ pathnames = PathNames
    /\ hgrc \in {Absent, File(HgrcText)}
    /\ backup \in {Absent, File(StaleText)}
    /\ kilnschemes \in { <<UrlOther>>, <<UrlKiln>>, <<UrlOther, UrlKilnHg>> }
    /\ \E env \in
          { << <<[p1 |-> nullrev, p2 |-> nullrev]>>, File(<<TokenMine>>), Absent >>,
            << <<[p1 |-> nullrev, p2 |-> nullrev]>>, Absent, File(<<CookieSid, CookieA>>) >>,
            << <<[p1 |-> nullrev, p2 |-> nullrev]>>, File(<<TokenTheirs>>), Absent >>,
            << <<>>, File(<<TokenMine>>), Absent >> } :
          commits = env[1] /\ tokenFile = env[2] /\ cookies = env[3]
    /\ apiPool = {RepoApi, RepoBeta, RepoMy}
    /\ bfile = EmptyStr
    /\ bkind = "file"
    /\ ignoreversion = DefaultIgnore
    /\ InitCommon

\* hg kiln --targets, through display_targets
InitTargets ==
    /\ cmd = "targets"
    /\ dest = EmptyStr
    /\ pathnames = PathNames
    /\ hgrc = File(HgrcText)
    /\ backup = Absent
    /\ kilnschemes \in { <<>>, <<UrlOther>>, <<UrlKiln>>, <<UrlKiln, UrlKilnHg>>,
                         <<UrlKilnHg, UrlOther, UrlKiln>> }
    /\ commits \in Repos
    /\ tokenFile \in TokenFiles
    /\ cookies \in CookieJars
    /\ apiPool = {RepoApi}
    /\ bfile = EmptyStr
    /\ bkind = "file"
    /\ ignoreversion = DefaultIgnore
    /\ InitCommon

\* hg kiln --file/--annotate/--filehistory with one file of the manifest
InitBrowse ==
    /\ cmd = "browse"
    /\ dest = EmptyStr
    /\ pathnames = PathNames
    /\ hgrc = File(HgrcText)
    /\ backup = Absent
    /\ kilnschemes = <<>>
    /\ commits = <<[p1 |-> nullrev, p2 |-> nullrev]>>
    /\ tokenFile = Absent
    /\ cookies = Absent
    /\ apiPool = {}
    /\ bfile \in FilePaths
    /\ bkind \in PageKinds
    /\ ignoreversion = DefaultIgnore
    /\ InitCommon

\* a process that sets up repository objects: the guard flag starts FALSE
InitVersion ==
    /\ cmd = "reposetup"
    /\ dest = EmptyStr
    /\ pathnames = PathNames
    /\ hgrc = File(HgrcText)
    /\ backup = Absent
    /\ kilnschemes = <<>>
    /\ commits = <<[p1 |-> nullrev, p2 |-> nullrev]>>
    /\ tokenFile = Absent
    /\ cookies = Absent
    /\ apiPool = {}
    /\ bfile = EmptyStr
    /\ bkind = "file"
    /\ ignoreversion \in IgnoreVersions
    /\ InitCommon


(***************************************************************************)
(* guess_kilnpath, the wrapper of outgoing, push, pull and incoming         *)
(***************************************************************************)

\* how the wrapped command ends: it returns or it raises
OrigOutcomes == { "returned", "raised" }

\* the test of line 365
SkipsGuessing(d, exists, names) ==
    exists \/ is_dest_a_path(names, d) \/ is_dest_a_scheme(d)

\* lines 362-368: without a dest, or with one that is a file, a path name or
\* a scheme, the wrapped command runs at once; else get_targets is entered
Start ==
    /\ pc = "start"
    /\ cmd = "push"
    /\ IF dest = EmptyStr
       THEN /\ \E r \in OrigOutcomes : outcome' = r
            /\ origCalls' = Append(origCalls, NoDest)
            /\ pc' = "done"
            /\ UNCHANGED << destExists, trace >>
       ELSE \E exists \in BOOLEAN :
            /\ destExists' = exists
            /\ IF SkipsGuessing(dest, exists, pathnames)
               THEN /\ \E r \in OrigOutcomes : outcome' = r
                    /\ origCalls' = Append(origCalls, dest)
                    /\ pc' = "done"
                    /\ UNCHANGED trace
               ELSE /\ pc' = "get_targets"
                    /\ trace' = Append(trace, Ev("get_targets", EmptyStr, EmptyStr))
                    /\ UNCHANGED << origCalls, outcome >>
    /\ UNCHANGED << fileVars, inputVars, versionVars, idx, tokenFile, targets, matches,
                    prefixmatches, message, opened >>

\* hg kiln --targets: display_targets calls get_targets
StartTargets ==
    /\ pc = "start"
    /\ cmd = "targets"
    /\ pc' = "get_targets"
    /\ trace' = Append(trace, Ev("get_targets", EmptyStr, EmptyStr))
    /\ UNCHANGED << fileVars, inputVars, versionVars, destExists, idx, tokenFile, targets,
                    matches, prefixmatches, origCalls, outcome, message, opened >>

(***************************************************************************)
(* get_targets: one step for each entry of kiln_scheme                     *)
(***************************************************************************)

\* the entry has no marker: continue
SkipScheme ==
    /\ pc = "get_targets"
    /\ idx <= Len(kilnschemes)
    /\ ~IsRelevant(kilnschemes[idx])
    /\ idx' = idx + 1
    /\ UNCHANGED << fileVars, inputVars, versionVars, pc, destExists, tokenFile, targets,
                    matches, prefixmatches, origCalls, outcome, message, trace,
                    opened >>

\* get_tails raises for a repository without a tail
EmptyHistory ==
    /\ pc = "get_targets"
    /\ idx <= Len(kilnschemes)
    /\ IsRelevant(kilnschemes[idx])
    /\ get_tails(commits) = <<>>
    /\ pc' = "done"
    /\ outcome' = "abort_empty_history"
    /\ trace' = Append(trace, Ev("get_tails", BaseUrl(kilnschemes[idx]), EmptyStr))
    /\ UNCHANGED << fileVars, inputVars, versionVars, destExists, idx, tokenFile, targets,
                    matches, prefixmatches, origCalls, message, opened >>

\* the URL of the Related endpoint
RelatedUrl(baseurl) ==
    baseurl \o <<"A","p","i","/","1",".","0","/","R","e","p","o","/",
                 "R","e","l","a","t","e","d">>

\* the rest of the loop body once the token step gave tok and call_api is
\* about to give related
FetchStep(url, baseurl, tails, tok, related) ==
    /\ tokenFile' = tok.file
    /\ IF tok.outcome # "ok"
       THEN /\ pc' = "done"
            /\ outcome' = tok.outcome
            /\ trace' = trace \o <<Ev("get_tails", baseurl, EmptyStr)>> \o tok.events
            /\ UNCHANGED << idx, targets >>
       ELSE /\ trace' = trace \o <<Ev("get_tails", baseurl, EmptyStr)>> \o tok.events
                          \o <<EvApi(RelatedUrl(baseurl), tok.token, tails)>>
            /\ IF ~related.ok
               THEN /\ pc' = "done"
                    /\ outcome' = "abort_api"
                    /\ UNCHANGED << idx, targets >>
               ELSE /\ idx' = idx + 1
                    /\ targets' = targets \o
                          [i \in 1..Len(related.body) |-> MakeTarget(url, related.body[i])]
                    /\ UNCHANGED << pc, outcome >>

\* the rest of the loop body for a relevant entry: the token, then the
\* Related call, then targets.extend
FetchRelated ==
    /\ pc = "get_targets"
    /\ idx <= Len(kilnschemes)
    /\ IsRelevant(kilnschemes[idx])
    /\ get_tails(commits) # <<>>
    /\ \E loginReply \in LoginReplies, related \in RelatedReplies(apiPool) :
         \E baseurl \in {BaseUrl(kilnschemes[idx])} :
            FetchStep(kilnschemes[idx], baseurl, get_tails(commits),
                      AcquireToken(tokenFile, cookies, baseurl, loginReply), related)
    /\ UNCHANGED << fileVars, inputVars, versionVars, destExists, matches, prefixmatches,
                    origCalls, message, opened >>

\* get_targets returns targets
ReturnTargets ==
    /\ pc = "get_targets"
    /\ idx > Len(kilnschemes)
    /\ pc' = IF cmd = "push" THEN "decide" ELSE "display"
    /\ UNCHANGED << fileVars, inputVars, versionVars, destExists, idx, tokenFile, targets,
                    matches, prefixmatches, origCalls, outcome, message, trace,
                    opened >>

\* display_targets writes the list
DisplayTargets ==
    /\ pc = "display"
    /\ pc' = "done"
    /\ outcome' = "returned"
    /\ UNCHANGED << fileVars, inputVars, versionVars, destExists, idx, tokenFile, targets,
                    matches, prefixmatches, origCalls, message, trace, opened >>


(***************************************************************************)
(* guess_kilnpath after get_targets                                        *)
(***************************************************************************)

NearMissText == <<" did not exactly match any part of the repository slug:\n\n">>

AmbiguousText == <<" matches more than one Kiln repository:\n\n">>

\* a faulty variant of Verdict: one exact match among several is taken
VerdictFirstWins(m, pm) ==
    IF Len(m) = 0
    THEN (IF Len(pm) = 0 THEN "passthrough" ELSE "abort_nearmiss")
    ELSE "unique"

\* the branch lines 400-411 take
Verdict(m, pm) ==
    IF Len(m) = 0
    THEN (IF Len(pm) = 0 THEN "passthrough" ELSE "abort_nearmiss")
    ELSE IF Len(m) > 1 THEN "abort_ambiguous"
    ELSE "unique"

\* a faulty variant of PassedDest: the normalized destination is passed on
PassedDestNormalized(d) == normalize_name(d)

\* the dest argument of orig on line 403
PassedDest(d) == d

\* lines 369-411: the two match lists, then pass through, abort or go on
Decide ==
    /\ pc = "decide"
    /\ LET m  == Matches(targets, dest)
           pm == PrefixMatches(targets, dest)
           v  == Verdict(m, pm)
       IN  /\ matches' = m
           /\ prefixmatches' = pm
           /\ IF v = "passthrough"
              THEN /\ \E r \in OrigOutcomes : outcome' = r
                   /\ origCalls' = Append(origCalls, PassedDest(dest))
                   /\ pc' = "done"
                   /\ UNCHANGED message
              ELSE IF v = "abort_nearmiss"
              THEN /\ outcome' = v
                   /\ message' = dest \o NearMissText \o create_match_list(pm)
                   /\ pc' = "done"
                   /\ UNCHANGED origCalls
              ELSE IF v = "abort_ambiguous"
              THEN /\ outcome' = v
                   /\ message' = dest \o AmbiguousText \o create_match_list(m)
                   /\ pc' = "done"
                   /\ UNCHANGED origCalls
              ELSE /\ pc' = "remember"
                   /\ UNCHANGED << origCalls, outcome, message >>
    /\ UNCHANGED << fileVars, inputVars, versionVars, destExists, idx, tokenFile, targets,
                    trace, opened >>

\* the text remember_path appends to hgrc
Memo(path, value) ==
    <<"\n","[","p","a","t","h","s","]","\n">> \o path \o <<" ","="," ">>
        \o value \o <<"\n">>

\* lines 324-328 of remember_path: it returns before touching a file
RememberReturnsEarly(path, names) == path \in names \/ HasConfigChar(path)

\* remember_path(ui, repo, dest, matches[0]) inside the try of line 412; the
\* copy of hgrc raises when hgrc does not exist, and an IOError of the
\* append is swallowed
Remember ==
    /\ pc = "remember"
    /\ trace' = Append(trace, Ev("remember_path", EmptyStr, EmptyStr))
    /\ IF RememberReturnsEarly(dest, pathnames)
       THEN /\ pc' = "orig"
            /\ UNCHANGED << hgrc, backup, pathnames, outcome >>
       ELSE IF ~hgrc.exists
       THEN /\ pc' = "cleanup"
            /\ outcome' = "io_error"
            /\ UNCHANGED << hgrc, backup, pathnames >>
       ELSE /\ pc' = "orig"
            /\ backup' = hgrc
            /\ pathnames' = pathnames \cup {dest}
            /\ \E written \in BOOLEAN :
                 hgrc' = IF written
                         THEN File(hgrc.text \o Memo(dest, matches[1]))
                         ELSE hgrc
            /\ UNCHANGED outcome
    /\ UNCHANGED << inputVars, versionVars, destExists, idx, tokenFile, targets, matches,
                    prefixmatches, origCalls, message, opened >>

\* orig(ui, repo, matches[0], **opts) on line 414
RunOrig ==
    /\ pc = "orig"
    /\ origCalls' = Append(origCalls, matches[1])
    /\ \E r \in OrigOutcomes : outcome' = r
    /\ pc' = "cleanup"
    /\ UNCHANGED << fileVars, inputVars, versionVars, destExists, idx, tokenFile, targets,
                    matches, prefixmatches, message, trace, opened >>

\* unremember_path: hgrc after it, and whether the copy raised (it does when
\* hgrc exists and hgrc.backup does not)
Restored(file, saved) ==
    IF ~file.exists THEN [file |-> file, raised |-> FALSE]
    ELSE IF ~saved.exists THEN [file |-> file, raised |-> TRUE]
    ELSE [file |-> saved, raised |-> FALSE]

\* the finally of line 415: unremember_path(ui, repo)
Unremember ==
    /\ pc = "cleanup"
    /\ trace' = Append(trace, Ev("unremember_path", EmptyStr, EmptyStr))
    /\ hgrc' = Restored(hgrc, backup).file
    /\ outcome' = IF Restored(hgrc, backup).raised THEN "io_error" ELSE outcome
    /\ pc' = "done"
    /\ UNCHANGED << backup, pathnames, inputVars, versionVars, destExists, idx, tokenFile,
                    targets, matches, prefixmatches, origCalls, message, opened >>

(***************************************************************************)
(* hg kiln with a file: browse(urljoin(url, 'File', f) + query)            *)
(***************************************************************************)
Browse ==
    /\ pc = "start"
    /\ cmd = "browse"
    /\ opened' = Append(opened,
            escape_reserved(urljoin(<<BrowseBase, PageSegment(bkind), bfile>>)
                                \o PageQuery(bkind)))
    /\ outcome' = "returned"
    /\ pc' = "done"
    /\ UNCHANGED << fileVars, inputVars, versionVars, destExists, idx, tokenFile, targets,
                    matches, prefixmatches, origCalls, message, trace >>

(***************************************************************************)
(* reposetup and _versioncheck                                             *)
(***************************************************************************)

\* the entry of vlog for one call of _versioncheck: the string it was given,
\* the guard flag when it was entered, and what the call left
VersionCall(str, before, r) ==
    [str |-> str, before |-> before, after |-> r.flag, raised |-> r.raised,
     compared |-> r.compared, out |-> r.out]

\* reposetup(ui, repo) is entered: only a repository of an HTTP class that
\* advertises something enters the loop
Reposetup ==
    /\ cmd = "reposetup"
    /\ pc = "start"
    /\ nsetups < MaxSetups
    /\ nsetups' = nsetups + 1
    /\ \E repo \in RepoObjects :
          IF repo.http /\ repo.caps # <<>>
          THEN /\ vrepo' = repo
               /\ vpos' = 1
               /\ pc' = "caps"
          ELSE UNCHANGED << vrepo, vpos, pc >>
    /\ UNCHANGED << fileVars, inputVars, destExists, idx, tokenFile, targets,
                    matches, prefixmatches, origCalls, outcome, message, trace,
                    opened, _did_version_check, vlog >>

\* the position of the loop of reposetup after the capability at vpos: an
\* exception of _versioncheck leaves reposetup
LeaveLoop(raised) ==
    IF raised \/ vpos = Len(vrepo.caps)
    THEN /\ pc' = "start"
         /\ vpos' = 0
         /\ vrepo' = NoRepo
    ELSE /\ vpos' = vpos + 1
         /\ UNCHANGED << pc, vrepo >>

\* one call _versioncheck(ui, repo, cap) of the loop, with result r
Notify(cap, r) ==
    /\ _did_version_check' = r.flag
    /\ vlog' = Append(vlog, VersionCall(cap, _did_version_check, r))
    /\ opened' = opened \o r.pages
    /\ LeaveLoop(r.raised)

\* one round of the loop of reposetup (lines 559-561)
CapabilityStep ==
    /\ cmd = "reposetup"
    /\ pc = "caps"
    /\ IF StartsWith(vrepo.caps[vpos], KILN_CAPABILITY_PREFIX)
       THEN \E answer \in BOOLEAN :
               Notify(vrepo.caps[vpos],
                      _versioncheck(_did_version_check, vrepo.caps[vpos],
                                    ignoreversion, vrepo.url, answer))
       ELSE /\ LeaveLoop(FALSE)
            /\ UNCHANGED << _did_version_check, vlog, opened >>
    /\ UNCHANGED << fileVars, inputVars, destExists, idx, tokenFile, targets,
                    matches, prefixmatches, origCalls, outcome, message, trace,
                    nsetups >>

(***************************************************************************)
(* Specifications                                                          *)
(***************************************************************************)
GetTargetsStep == SkipScheme \/ EmptyHistory \/ FetchRelated \/ ReturnTargets

Next == Start \/ GetTargetsStep \/ Decide \/ Remember \/ RunOrig \/ Unremember

NextTargets == StartTargets \/ GetTargetsStep \/ DisplayTargets

\* the wrapped commands
Spec == InitPush /\ [][Next]_vars

\* hg kiln --targets
SpecTargets == InitTargets /\ [][NextTargets]_vars

\* hg kiln --file, --annotate, --filehistory
SpecBrowse == InitBrowse /\ [][Browse]_vars

NextVersion == Reposetup \/ CapabilityStep

\* the repository set-ups of one process
SpecVersion == InitVersion /\ [][NextVersion]_vars


(***************************************************************************)
(* Properties                                                              *)
(***************************************************************************)

\* get_targets was called
GetTargetsCalled == \E i \in 1..Len(trace) : trace[i].op = "get_targets"

\* guess_kilnpath is past line 398: get_targets returned and both match
\* lists are built
Decided ==
    /\ cmd = "push"
    /\ \/ pc \in {"remember", "orig", "cleanup"}
       \/ pc = "done" /\ GetTargetsCalled /\ idx > Len(kilnschemes)

\* remember_path was called, which only the unique-match branch does
ReachedUnique == \E i \in 1..Len(trace) : trace[i].op = "remember_path"

\* unremember_path was called
Unremembered == \E i \in 1..Len(trace) : trace[i].op = "unremember_path"

\* C1: whenever guess_kilnpath has finished after reaching the unique-match
\* branch, hgrc is byte-identical to hgrc before the invocation, for every
\* destination and every initial hgrc.backup, whether the wrapped command
\* returned or raised.
C1_HgrcRoundTrip == (pc = "done" /\ ReachedUnique) => hgrc = hgrc0

\* the exact-match rule of C2 for one target and a destination, on
\* normalized values
C2_Rule(target, d) ==
    LET nd == normalize_name(d)
        p  == normalize_name(target[2])
        g  == normalize_name(target[3])
        r  == normalize_name(target[4])
        al == { normalize_name(target[5][i]) : i \in 1..Len(target[5]) }
    IN  CASE Count(nd, "/") = 0 -> nd \in ({p, g, r} \cup al)
          [] Count(nd, "/") = 1 -> nd \in {p \o Slash \o g, g \o Slash \o r}
          [] Count(nd, "/") = 2 -> nd = p \o Slash \o g \o Slash \o r
          [] OTHER              -> FALSE

\* the single-target catalog of C2: acme/web/api with the alias backend
C2_Catalog == <<MakeTarget(UrlKiln, RepoApi)>>

C2_Examples ==
    { <<"b","a","c","k","e","n","d">>, <<"a","p","i">>,
      <<"a","c","m","e","/","w","e","b","/","a","p","i">> }

\* C2: once guess_kilnpath has built its match lists, matches holds, in
\* catalog order, exactly one URL for every target whose applicable rule
\* (by the number of '/' in the normalized destination) holds, and none for
\* any other target; for the catalog {acme, web, api, [backend]} the
\* destinations backend, api and acme/web/api resolve to that target's URL.
C2_ExactMatchRule ==
    Decided =>
        /\ matches = Map(TargetUrl,
                         SelectSeq(targets, LAMBDA t : C2_Rule(t, dest)))
        /\ (targets = C2_Catalog /\ dest \in C2_Examples) =>
              /\ matches = <<TargetUrl(C2_Catalog[1])>>
              /\ outcome \notin {"abort_ambiguous", "abort_nearmiss"}
              /\ pc = "done" /\ hgrc.exists => origCalls = matches

\* C2 witness: the alias backend resolved against the single-target catalog
C2_Witness ==
    /\ pc = "done"
    /\ Decided
    /\ targets = C2_Catalog
    /\ dest = <<"b","a","c","k","e","n","d">>
    /\ origCalls = <<TargetUrl(C2_Catalog[1])>>

\* whether the message lists url the way create_match_list writes an entry
C3_Lists(msg, url) == Contains(msg, <<" "," "," "," ">> \o url \o <<"\n">>)

\* C3: with more than one exact match, or with no exact match and some
\* prefix match, guess_kilnpath aborts with a message that lists every URL
\* of that set, never calls the wrapped command and leaves hgrc untouched.
C3_AbortsListAll ==
    /\ (Decided /\ Len(matches) > 1) =>
          /\ pc = "done"
          /\ outcome = "abort_ambiguous"
          /\ \A i \in 1..Len(matches) : C3_Lists(message, matches[i])
          /\ origCalls = <<>>
          /\ ~ReachedUnique
          /\ hgrc = hgrc0 /\ backup = backup0
    /\ (Decided /\ Len(matches) = 0 /\ Len(prefixmatches) > 0) =>
          /\ pc = "done"
          /\ outcome = "abort_nearmiss"
          /\ \A i \in 1..Len(prefixmatches) : C3_Lists(message, prefixmatches[i])
          /\ origCalls = <<>>
          /\ ~ReachedUnique
          /\ hgrc = hgrc0 /\ backup = backup0

\* C3 witness: two targets with the repo slug api and the destination api
C3_Witness ==
    /\ pc = "done"
    /\ dest = <<"a","p","i">>
    /\ targets = <<MakeTarget(UrlKiln, RepoApi), MakeTarget(UrlKiln, RepoBeta)>>
    /\ Len(matches) = 2
    /\ outcome = "abort_ambiguous"

\* C4: with no exact and no prefix match (as for every destination when the
\* catalog is empty) the wrapped command is called exactly once, with the
\* destination as typed, and remember_path and unremember_path do not run:
\* hgrc and hgrc.backup stay as they were.
C4_PassThrough ==
    /\ (Decided /\ targets = <<>>) => (matches = <<>> /\ prefixmatches = <<>>)
    /\ (Decided /\ matches = <<>> /\ prefixmatches = <<>>) =>
          /\ pc = "done"
          /\ origCalls = <<dest>>
          /\ outcome \in OrigOutcomes
          /\ ~ReachedUnique /\ ~Unremembered
          /\ hgrc = hgrc0 /\ backup = backup0

\* C4 witness: Nope passed through unchanged against a catalog
C4_Witness ==
    /\ Decided
    /\ dest = <<"N","o","p","e">>
    /\ targets # <<>>
    /\ matches = <<>> /\ prefixmatches = <<>>
    /\ origCalls = << <<"N","o","p","e">> >>

\* C5: a destination whose normalized form holds more than 2 '/' matches no
\* target exactly, does not abort as ambiguous or near-miss, and is passed
\* through unchanged to the wrapped command, whatever the catalog.
C5_TooManySeparators ==
    (Decided /\ Count(normalize_name(dest), "/") > 2) =>
        /\ matches = <<>>
        /\ outcome \notin {"abort_ambiguous", "abort_nearmiss"}
        /\ pc = "done"
        /\ origCalls = <<dest>>

\* C5 witness: acme/web/api/x against a catalog holding acme/web/api
C5_Witness ==
    /\ Decided
    /\ Count(normalize_name(dest), "/") > 2
    /\ \E i \in 1..Len(targets) : targets[i] = MakeTarget(UrlKiln, RepoApi)
    /\ origCalls = <<dest>>


\* the URLs of the relevant kiln_scheme entries
RelevantSchemes ==
    { kilnschemes[j] : j \in { k \in 1..Len(kilnschemes) : IsRelevant(kilnschemes[k]) } }

\* url followed by '/', project, '/', group, '/', repo slug of a repository
C6_Under(url, repo) ==
    url \o Slash \o repo.sProjectSlug \o Slash \o repo.sGroupSlug
        \o Slash \o repo.sSlug

\* C6 as claimed: every target carries the URL of a relevant scheme entry
\* truncated just after the marker.
C6_TargetsCarryBaseUrl ==
    \A i \in 1..Len(targets) :
        \E u \in RelevantSchemes : targets[i][1] = BaseUrl(u)

\* C6 as amended: every target carries the whole URL of its relevant scheme
\* entry, text beyond the marker included; every URL guess_kilnpath resolves
\* to or lists is that whole URL followed by '/', project, '/', group, '/',
\* repo slug; only the API endpoint is built on the truncated base URL.
C6_TargetsCarrySchemeUrl ==
    /\ \A i \in 1..Len(targets) :
          \E u \in RelevantSchemes : targets[i][1] = u
    /\ \A i \in 1..Len(matches) :
          \E u \in RelevantSchemes, repo \in apiPool : matches[i] = C6_Under(u, repo)
    /\ \A i \in 1..Len(prefixmatches) :
          \E u \in RelevantSchemes, repo \in apiPool :
              prefixmatches[i] = C6_Under(u, repo)
    /\ \A i \in 1..Len(trace) :
          trace[i].op = "call_api" =>
              \E u \in RelevantSchemes : trace[i].url = RelatedUrl(BaseUrl(u))

\* C6 witness: a resolved URL under a scheme URL that goes on past the marker
C6_Witness ==
    /\ pc = "done"
    /\ Len(matches) = 1
    /\ origCalls = <<C6_Under(UrlKiln, RepoApi)>>
    /\ UrlKiln # BaseUrl(UrlKiln)

\* whether d names a registered scheme: it holds '://' and the text before
\* it is a registered scheme
C7_NamesScheme(d) ==
    /\ Contains(d, <<":","/","/">>)
    /\ SliceTo(d, Find(d, <<":","/","/">>)) \in HgSchemes

\* C7: guess_kilnpath skips resolution (get_targets is not called and the
\* wrapped command gets the destination unchanged) exactly when the
\* destination is empty, exists as a file, is the name of a [paths] item or
\* names a registered scheme; every other destination is matched.
C7_SkipExactly ==
    (cmd = "push" /\ pc = "done") =>
        /\ ~GetTargetsCalled <=>
              \/ dest = EmptyStr
              \/ destExists
              \/ dest \in PathNames
              \/ C7_NamesScheme(dest)
        /\ ~GetTargetsCalled =>
              origCalls = <<IF dest = EmptyStr THEN NoDest ELSE dest>>

\* the path of a URL, before the first '?', as its components
C8_Parts(url) == Split(Split(url, "?")[1], "/")

\* the components among FileParts that match the reserved list
C8_ReservedParts ==
    { <<"c","o","n">>, <<"C","O","N">>, <<"C","o","m","1",".","t","x","t">>,
      <<"b","i","n">>, <<"w","e","b",".","c","o","n","f","i","g">> }

\* the URL hg kiln builds before escape_reserved
C8_Url == urljoin(<<BrowseBase, PageSegment(bkind), bfile>>) \o PageQuery(bkind)

\* C8 as claimed: escaping the escaped URL again changes nothing.
C8_Idempotent ==
    (cmd = "browse" /\ pc = "done") => escape_reserved(opened[1]) = opened[1]

\* C8 as amended: escape_reserved prefixes one '$' to every path component
\* that matches the reserved list, ignoring case, or that already starts
\* with '$', and leaves every other component and the query untouched; so a
\* second application adds one more '$' to every component that starts with
\* '$', and escaping is idempotent only on URLs without such a component.
C8_EscapeRule ==
    (cmd = "browse" /\ pc = "done") =>
        /\ Len(opened) = 1
        /\ Len(C8_Parts(opened[1])) = Len(C8_Parts(C8_Url))
        /\ \A i \in 1..Len(C8_Parts(C8_Url)) :
              C8_Parts(opened[1])[i] =
                  IF \/ C8_Parts(C8_Url)[i] \in C8_ReservedParts
                     \/ StartsWith(C8_Parts(C8_Url)[i], <<"$">>)
                  THEN <<"$">> \o C8_Parts(C8_Url)[i]
                  ELSE C8_Parts(C8_Url)[i]
        /\ EndsWith(opened[1], PageQuery(bkind))
        /\ (escape_reserved(opened[1]) = opened[1]) <=>
              \A i \in 1..Len(C8_Parts(opened[1])) :
                  ~StartsWith(C8_Parts(opened[1])[i], <<"$">>)

\* C8 witness: $con/CON opened as $$con/$CON
C8_Witness ==
    /\ pc = "done"
    /\ bfile = <<"$","c","o","n","/","C","O","N">>
    /\ bkind = "annotate"
    /\ Contains(opened[1], <<"/","$","$","c","o","n","/","$","C","O","N","?">>)


\* the entries of the call log with the given op
C9_Calls(op) == { i \in 1..Len(trace) : trace[i].op = op }

\* the revisions both of whose parents are null
C9_Roots ==
    { r \in 0..(Len(commits) - 1) :
        commits[r + 1].p1 = nullrev /\ commits[r + 1].p2 = nullrev }

\* C9 as claimed: get_targets on a repository without commits always ends
\* with the empty-history error.
C9_EmptyHistoryAlwaysFails ==
    (cmd = "targets" /\ pc = "done" /\ commits = <<>>) =>
        outcome = "abort_empty_history"

\* C9 as amended: on a repository without commits get_targets ends with the
\* empty-history error exactly when kiln_scheme holds a relevant entry (it
\* is raised at the first one, before any token lookup or API call), and
\* returns an empty catalog without error otherwise; on a repository with
\* commits the error is never raised and the tails sent are exactly the hex
\* ids of all revisions both of whose parents are null, one per root.
C9_EmptyHistoryAndTails ==
    /\ (cmd = "targets" /\ pc = "done" /\ commits = <<>>) =>
          /\ outcome = "abort_empty_history" <=> RelevantSchemes # {}
          /\ outcome # "abort_empty_history" => (outcome = "returned" /\ targets = <<>>)
    /\ outcome = "abort_empty_history" =>
          /\ commits = <<>>
          /\ C9_Calls("check_kilnapi_token") = {}
          /\ C9_Calls("call_api") = {}
          /\ tokenFile = tokenFile0
    /\ \A i \in C9_Calls("call_api") :
          /\ { trace[i].tails[k] : k \in 1..Len(trace[i].tails) }
                = { Hex(r) : r \in C9_Roots }
          /\ Len(trace[i].tails) = Cardinality(C9_Roots)

\* C9 witness: a repository of two independent roots, both sent as tails
C9_Witness ==
    /\ cmd = "targets"
    /\ pc = "done"
    /\ Cardinality(C9_Roots) = 2
    /\ \E i \in C9_Calls("call_api") : Len(trace[i].tails) = 2

\* the token file as it was just before entry i of the call log
C10_FileBefore(i) ==
    tokenFile0.text \o
        Map(LAMBDA e : TokenLine(e.url, e.val),
            SelectSeq(SubSeq(trace, 1, i - 1), LAMBDA e : e.op = "write_token"))

\* the lines of the token file for the domain of url and this user
C10_Entries(lines, url) ==
    { k \in 1..Len(lines) :
        StartsWith(lines[k], get_domain(url) \o <<" ">> \o UserHash \o <<" ">>) }

C11_Announcing == { i \in 1..Len(vlog) : vlog[i].out # <<>> }

\* at most one call of _versioncheck of the process prints, the call that
\* prints entered with the guard flag FALSE and left it TRUE, and a call
\* entered with the guard flag TRUE returns without output, without an
\* exception and with the flag still TRUE
C11_AtMostOneNotice ==
    /\ Cardinality(C11_Announcing) <= 1
    /\ \A i \in 1..Len(vlog) :
          /\ vlog[i].out # <<>> =>
                ~vlog[i].before /\ vlog[i].after /\ vlog[i].compared
          /\ vlog[i].before =>
                /\ vlog[i].after
                /\ vlog[i].out = <<>>
                /\ ~vlog[i].raised
                /\ ~vlog[i].compared
          /\ i > 1 => vlog[i].before = vlog[i - 1].after
    /\ _did_version_check =
          (IF vlog = <<>> THEN FALSE ELSE vlog[Len(vlog)].after)

\* the guard flag is never reset
C11_NeverReset == [][_did_version_check => _did_version_check']_vars

\* C11: across the _versioncheck calls of one process at most one call
\* prints a prompt or a notice, and the guard flag _did_version_check is set
\* by the first call that performs a comparison: a call that sets the flag
\* has compared the advertised version with the client's
C11_FlagSetByComparison ==
    \A i \in 1..Len(vlog) :
        (~vlog[i].before /\ vlog[i].after) => vlog[i].compared

\* the advertised version kiln-2..5 set the guard flag and raised before any
\* comparison; the newer version advertised after it was then met with the
\* flag set and announced nothing
C11_FlagBurnt ==
    /\ Len(vlog) >= 2
    /\ vlog[1].str = CapDoubleDot
    /\ vlog[1].after /\ vlog[1].raised /\ ~vlog[1].compared
    /\ vlog[2].str = CapNewer
    /\ vlog[2].before /\ vlog[2].out = <<>>
    /\ C11_Announcing = {}

\* a prompt was printed once and the later calls of the process were silent
C11_PromptedOnce ==
    /\ Len(vlog) >= 3
    /\ Cardinality(C11_Announcing) = 1
    /\ \E i \in C11_Announcing : i < Len(vlog) /\ vlog[i].out[1] = "prompt"
    /\ vlog[Len(vlog)].str = CapNewer

=============================================================================
